---------------------------- MODULE Spec2Model ----------------------------
(*************************************************************************)
(* Model of plugins/uefi-capsule/fu-plugin-uefi-capsule.c (fwupd).        *)
(*                                                                        *)
(* The module models the host-facing operations of the plugin:            *)
(*   fu_plugin_update            (with the UX-capsule / splash path)      *)
(*   fu_plugin_unlock                                                     *)
(*   fu_plugin_get_results                                                *)
(*   fu_plugin_coldplug                                                   *)
(* Each operation has its own specification (SpecUpdate, SpecCapsule,     *)
(* SpecSelect, SpecUnlock, SpecResults, SpecColdplug); they share one set *)
(* of variables, and a specification leaves the other operations' state   *)
(* untouched.                                                             *)
(*                                                                        *)
(* guint32 values are pairs <<hi, lo>> of 16-bit halves, so that the      *)
(* arithmetic modulo 2^32 of the C code is computed exactly.              *)
(*************************************************************************)
EXTENDS Integers, Sequences, FiniteSets, TLC

-----------------------------------------------------------------------------
(* Bounds of the model *)

\* longest splash payload (bytes) the model builds a capsule for
MaxBlobLen == 2
\* largest flashes_left value a device reports
MaxFlashes == 4
\* largest raw status value handed to fu_plugin_get_results
MaxStatus == 9
\* largest last-attempt version handed to fu_plugin_get_results
MaxVersionError == 5
\* most ESRT entries listed by one coldplug
MaxEntries == 3
\* most proxy devices registered in one session
MaxProxies == 2

-----------------------------------------------------------------------------
(* guint32 arithmetic on <<hi, lo>> pairs *)

Half == 256 * 256

\* a natural number below 2^31 as a guint32
N32(n) == <<(n \div Half) % Half, n % Half>>

G_MAXUINT == <<Half - 1, Half - 1>>

Lt32(a, b) == a[1] < b[1] \/ (a[1] = b[1] /\ a[2] < b[2])

Gt32(a, b) == Lt32(b, a)

Add32(a, b) ==
    LET lo == a[2] + b[2]
        hi == a[1] + b[1] + (lo \div Half)
    IN  <<hi % Half, lo % Half>>

Sub32(a, b) ==
    LET lo == a[2] - b[2]
        borrow == IF lo < 0 THEN 1 ELSE 0
        hi == a[1] - b[1] - borrow
    IN  <<(hi + Half) % Half, (lo + Half) % Half>>

\* (x * y) mod 2^16 for 16-bit x, y, without leaving 31 bits
MulLo16(x, y) ==
    ((x % 256) * y + (((x \div 256) * y) % 256) * 256) % Half

\* (x * y) div 2^16 for 16-bit x, y, without leaving 31 bits
MulHi16(x, y) ==
    LET A == (x % 256) * y
        B == (x \div 256) * y
    IN  (B \div 256) + ((A + (B % 256) * 256) \div Half)

Mul32(a, b) ==
    LET lo == MulLo16(a[2], b[2])
        hi == MulHi16(a[2], b[2]) + MulLo16(a[1], b[2]) + MulLo16(a[2], b[1])
    IN  <<hi % Half, lo>>

Half32(a) == <<a[1] \div 2, (a[2] \div 2) + (a[1] % 2) * (Half \div 2)>>

\* little-endian bytes of a guint32
LE32(a) == <<a[2] % 256, a[2] \div 256, a[1] % 256, a[1] \div 256>>


-----------------------------------------------------------------------------
(* State *)

VARIABLES
    \* fu_plugin_update and the splash path
    pc,              \* position inside fu_plugin_update
    upd_dev,         \* the device being updated: flashes_left, no_ux_capsule, status
    install_force,   \* FWUPD_INSTALL_FLAG_FORCE is set in flags
    fb,              \* what fu_uefi_get_framebuffer_size reports
    bgrt,            \* data->bgrt: supported, yoffset, height
    splash_file,     \* the locale's pre-rendered splash image on disk
    bmp,             \* what fu_uefi_get_bitmap_size reports for the image
    best_idx,        \* update_splash: index of the selected catalog entry
    image_bmp,       \* update_splash: the decompressed image (blob)
    capsule_header,  \* write_splash_data: efi_capsule_header_t
    header,          \* write_splash_data: efi_ux_capsule_header_t
    ostream,         \* write_splash_data: where the output stream writes
    target,          \* the file at <ESP>/.../fw/fwupd-<guid>.cap
    tmpfile,         \* the temporary file g_file_replace may write to
    efivar_ux,       \* the fwupd-ux-capsule variable exists
    trace,           \* side effects of the update call, in order
    splash_error,    \* error of fu_plugin_uefi_capsule_update_splash, or "none"
    fw_calls,        \* number of fu_device_write_firmware calls
    fw_result,       \* result of fu_device_write_firmware
    upd_result,      \* result of fu_plugin_update
    \* fu_plugin_unlock
    kind,            \* device -> FuUefiDeviceKind
    alternate,       \* device -> alternate device or "NULL"
    flashes_left,    \* device -> flashes left
    flags,           \* device -> set of FwupdDeviceFlags
    version,         \* device -> version string
    version_format,  \* device -> version format
    last_unlock,     \* the last fu_plugin_unlock call and what it saw
    \* fu_plugin_get_results
    status,          \* fu_uefi_device_get_status: raw last-attempt status
    version_error,   \* fu_uefi_device_get_version_error
    update_state,    \* FwupdUpdateState of the device
    update_error,    \* update error message of the device, or "NULL"
    results_ret,     \* return value of fu_plugin_get_results
    \* fu_plugin_coldplug
    esrt,            \* the ESRT directory: listable, entries
    esp_env,         \* a default ESP can be found
    efivarfs_rw,     \* efivarfs is mounted read-write
    esp,             \* data->esp: "NULL" or the cached volume
    esp_lookups,     \* number of fu_common_get_esp_default calls
    plugin_flags,    \* flags of the plugin
    devices_added,   \* devices handed to fu_plugin_device_add, in order
    coldplug_ret,    \* return value of fu_plugin_coldplug
    esp_override,    \* OverrideESPMountPoint of the config: "none", "valid", "invalid"
    startup_ret      \* return value of fu_plugin_startup

updateVars == <<pc, upd_dev, install_force, fb, bgrt, splash_file, bmp, best_idx,
                image_bmp, capsule_header, header, ostream, target, tmpfile,
                efivar_ux, trace, splash_error, fw_calls, fw_result, upd_result>>

unlockVars == <<kind, alternate, flashes_left, flags, version, version_format,
                last_unlock>>

resultsVars == <<status, version_error, update_state, update_error, results_ret>>

coldplugVars == <<esrt, esp_env, efivarfs_rw, esp, esp_lookups, plugin_flags,
                  devices_added, coldplug_ret, esp_override, startup_ret>>

vars == <<updateVars, unlockVars, resultsVars, coldplugVars>>

-----------------------------------------------------------------------------
(* Capsule Builder: layout and checksum *)

\* byte values the model draws splash payloads from
ByteValues == {0, 1, 255}

Blobs == UNION {[1..n -> ByteValues] : n \in 0..MaxBlobLen}

\* "3b8c8162-188c-46a4-aec9-be43f1d65697" in the order the string spells it
FU_EFIVAR_GUID_UX_CAPSULE ==
    <<59, 140, 129, 98, 24, 140, 70, 164, 174, 201, 190, 67, 241, 214, 86, 151>>

\* FWUPD_GUID_FLAG_MIXED_ENDIAN: the first three fields are stored little-endian
fwupd_guid_from_string(g) ==
    <<g[4], g[3], g[2], g[1], g[6], g[5], g[8], g[7]>> \o SubSeq(g, 9, 16)

EFI_CAPSULE_HEADER_FLAGS_PERSIST_ACROSS_RESET == N32(Half)

\* efi_capsule_header_t as it lies in memory
CapsuleHeaderBytes(h) ==
    LE32(h.flags) \o h.guid \o LE32(h.header_size) \o LE32(h.capsule_image_size)

\* efi_ux_capsule_header_t as it lies in memory
UxHeaderBytes(h) ==
    LE32(h.version) \o LE32(h.image_type) \o LE32(h.reserved) \o
    LE32(h.x_offset) \o LE32(h.y_offset) \o <<h.checksum>> \o <<0, 0, 0>>

ZeroGuid == [i \in 1..16 |-> 0]

\* efi_ux_capsule_header_t header = { 0 }
InitUxHeader ==
    [version |-> N32(0), image_type |-> N32(0), reserved |-> N32(0),
     x_offset |-> N32(0), y_offset |-> N32(0), checksum |-> 0]

sizeof_efi_capsule_header_t ==
    Len(CapsuleHeaderBytes([flags |-> N32(0), guid |-> ZeroGuid,
                            header_size |-> N32(0),
                            capsule_image_size |-> N32(0)]))

sizeof_efi_ux_capsule_header_t == Len(UxHeaderBytes(InitUxHeader))

\* efi_capsule_header_t capsule_header = { .flags = PERSIST_ACROSS_RESET,
\*   .guid = { 0x0 }, .header_size = sizeof(efi_capsule_header_t),
\*   .capsule_image_size = 0 }
InitCapsuleHeader ==
    [flags |-> EFI_CAPSULE_HEADER_FLAGS_PERSIST_ACROSS_RESET,
     guid |-> ZeroGuid,
     header_size |-> N32(sizeof_efi_capsule_header_t),
     capsule_image_size |-> N32(0)]

RECURSIVE calc_checksum_from(_, _, _)
calc_checksum_from(buf, i, csum) ==
    IF i > Len(buf) THEN csum
    ELSE calc_checksum_from(buf, i + 1, (csum + buf[i]) % 256)

\* a checksum loop that stops one byte early
calc_checksum_short(buf) ==
    calc_checksum_from(SubSeq(buf, 1, Len(buf) - 1), 1, 0)

\* guint8 csum = 0; for (i = 0; i < sz; i++) csum += buf[i];
fu_plugin_uefi_capsule_calc_checksum(buf) ==
    calc_checksum_from(buf, 1, 0)

\* an image size that forgets the UX capsule header
CapsuleImageSizeNoUx(blob) ==
    N32(Len(blob) + sizeof_efi_capsule_header_t)

\* capsule_image_size = size(blob) + sizeof(capsule header) + sizeof(ux header)
CapsuleImageSize(blob) ==
    N32(Len(blob) + sizeof_efi_capsule_header_t + sizeof_efi_ux_capsule_header_t)

\* header.x_offset = (screen_x / 2) - (width / 2)
XOffset(screen_x, width) == Sub32(Half32(screen_x), Half32(width))

\* header.y_offset = bgrt yoffset + bgrt height
YOffset(b) == Add32(b.yoffset, b.height)

\* csum over capsule header, UX header and payload; checksum = 0x100 - csum
HeaderChecksum(ch, h, blob) ==
    LET c1 == fu_plugin_uefi_capsule_calc_checksum(CapsuleHeaderBytes(ch))
        c2 == fu_plugin_uefi_capsule_calc_checksum(UxHeaderBytes(h))
        c3 == fu_plugin_uefi_capsule_calc_checksum(blob)
        csum == (((c1 + c2) % 256) + c3) % 256
    IN  (256 - csum) % 256

\* the capsule header once lines 256-264 have run
BuiltCapsuleHeader(blob) ==
    [InitCapsuleHeader EXCEPT
        !.guid = fwupd_guid_from_string(FU_EFIVAR_GUID_UX_CAPSULE),
        !.capsule_image_size = CapsuleImageSize(blob)]

\* the UX header once lines 266-280 have run
BuiltUxHeader(ch, blob, screen_x, width, b) ==
    LET h0 == [InitUxHeader EXCEPT
                  !.version = N32(1),
                  !.image_type = N32(0),
                  !.reserved = N32(0),
                  !.x_offset = XOffset(screen_x, width),
                  !.y_offset = YOffset(b)]
    IN  [h0 EXCEPT !.checksum = HeaderChecksum(ch, h0, blob)]

-----------------------------------------------------------------------------
(* Splash Selector *)

\* struct { guint32 width; guint32 height; } sizes[], with its { 0, 0 } end mark
sizes ==
    <<[width |-> N32(640),  height |-> N32(480)],
      [width |-> N32(800),  height |-> N32(600)],
      [width |-> N32(1024), height |-> N32(768)],
      [width |-> N32(1920), height |-> N32(1080)],
      [width |-> N32(3840), height |-> N32(2160)],
      [width |-> N32(5120), height |-> N32(2880)],
      [width |-> N32(5688), height |-> N32(3200)],
      [width |-> N32(7680), height |-> N32(4320)],
      [width |-> N32(0),    height |-> N32(0)]>>

\* border_pixels = (screen_width * screen_height) - (width * height), in guint32
BorderPixels(screen_width, screen_height, e) ==
    Sub32(Mul32(screen_width, screen_height), Mul32(e.width, e.height))

\* for (i = 0; sizes[i].width != 0; i++) { ... }; i counts from 0 as in the code
RECURSIVE FindBestFrom(_, _, _, _, _)
FindBestFrom(i, best, lowest_border_pixels, screen_width, screen_height) ==
    LET e == sizes[i + 1] IN
    IF e.width = N32(0) THEN best
    ELSE IF Gt32(e.width, screen_width) THEN
        FindBestFrom(i + 1, best, lowest_border_pixels, screen_width, screen_height)
    ELSE IF Gt32(e.height, screen_height) THEN
        FindBestFrom(i + 1, best, lowest_border_pixels, screen_width, screen_height)
    ELSE
        LET border_pixels == BorderPixels(screen_width, screen_height, e) IN
        IF Lt32(border_pixels, lowest_border_pixels)
        THEN FindBestFrom(i + 1, N32(i), border_pixels, screen_width, screen_height)
        ELSE FindBestFrom(i + 1, best, lowest_border_pixels, screen_width,
                          screen_height)

\* best_idx after the loop; G_MAXUINT when nothing was selected
FindBestIdx(screen_width, screen_height) ==
    FindBestFrom(0, G_MAXUINT, G_MAXUINT, screen_width, screen_height)

-----------------------------------------------------------------------------
(* Flash-Budget Guard of fu_plugin_update *)

\* a guard that forgets that flashes_left = 0 means "no counter"
FlashBudgetRefusesNoZero(fl, force) ==
    ~force /\ fl <= 2

\* a guard that lets every update through
FlashBudgetRefusesNever(fl, force) == FALSE

\* flashes_left > 0 && (flags & FORCE) == 0 && flashes_left <= 2
FlashBudgetRefuses(fl, force) ==
    fl > 0 /\ ~force /\ fl <= 2

\* a splash failure that is returned to the caller
SplashFailureReturned(err) == err # "none"

\* the splash failure is logged with g_debug and the update carries on
SplashFailureIsFatal(err) == FALSE

-----------------------------------------------------------------------------
(* fu_plugin_update *)

NoFile == [exists |-> FALSE, data |-> <<>>]

otherThanUpdate == <<unlockVars, resultsVars, coldplugVars>>

\* GOutputStream is closed when its last reference is dropped (g_autoptr):
\* a stream of g_file_replace that wrote to a temporary file renames it over
\* the target on close.
ClosedTarget(rename_ok) ==
    IF ostream = "temp" /\ rename_ok THEN tmpfile ELSE target

ClosedTmpfile(rename_ok) ==
    IF ostream = "temp" /\ rename_ok THEN NoFile ELSE tmpfile

RenameOutcomes == IF ostream = "temp" THEN BOOLEAN ELSE {TRUE}

\* return from fu_plugin_uefi_capsule_write_splash_data with the stream open
WsdReturn(err) ==
    \E rename_ok \in RenameOutcomes :
        /\ target' = ClosedTarget(rename_ok)
        /\ tmpfile' = ClosedTmpfile(rename_ok)
        /\ ostream' = "none"
        /\ splash_error' = err
        /\ pc' = "splash_ret"

\* g_output_stream_write: the bytes go where the stream writes
WsdWrite(bytes) ==
    IF ostream = "temp"
    THEN /\ tmpfile' = [tmpfile EXCEPT !.data = @ \o bytes]
         /\ target' = target
    ELSE /\ target' = [target EXCEPT !.data = @ \o bytes]
         /\ tmpfile' = tmpfile

\* lines 394-416: the flash counter test, then the status
Update_Begin ==
    /\ pc = "idle"
    /\ IF FlashBudgetRefuses(upd_dev.flashes_left, install_force)
       THEN /\ upd_result' = "NotSupported"
            /\ pc' = "done"
            /\ UNCHANGED <<upd_dev, trace>>
       ELSE /\ upd_dev' = [upd_dev EXCEPT !.status = "SCHEDULING"]
            /\ trace' = Append(trace, "status_scheduling")
            /\ pc' = "splash"
            /\ UNCHANGED upd_result
    /\ UNCHANGED <<install_force, fb, bgrt, splash_file, bmp, best_idx, image_bmp,
                   capsule_header, header, ostream, target, tmpfile, efivar_ux,
                   splash_error, fw_calls, fw_result>>
    /\ UNCHANGED otherThanUpdate

\* a device on which the no-ux-capsule flag is never seen
UxCapsuleDisabledNever(dev) == FALSE

\* line 327: fu_device_has_custom_flag (device, "no-ux-capsule")
UxCapsuleDisabled(dev) == dev.no_ux_capsule

\* lines 326-370 of fu_plugin_uefi_capsule_update_splash
Splash_Begin ==
    /\ pc = "splash"
    /\ IF UxCapsuleDisabled(upd_dev)
       THEN \E ok \in BOOLEAN :
                /\ efivar_ux' = IF ok THEN FALSE ELSE efivar_ux
                /\ trace' = IF ok THEN Append(trace, "efivar_delete") ELSE trace
                /\ splash_error' = IF ok THEN "none" ELSE "EfivarError"
                /\ pc' = "splash_ret"
                /\ UNCHANGED best_idx
       ELSE IF ~bgrt.supported
       THEN /\ splash_error' = "NotSupported"
            /\ pc' = "splash_ret"
            /\ UNCHANGED <<efivar_ux, trace, best_idx>>
       ELSE IF ~fb.ok
       THEN /\ splash_error' = "FramebufferError"
            /\ pc' = "splash_ret"
            /\ UNCHANGED <<efivar_ux, trace, best_idx>>
       ELSE /\ best_idx' = FindBestIdx(fb.width, fb.height)
            /\ IF best_idx' = G_MAXUINT
               THEN /\ splash_error' = "NotSupported"
                    /\ pc' = "splash_ret"
               ELSE /\ splash_error' = splash_error
                    /\ pc' = "get_data"
            /\ UNCHANGED <<efivar_ux, trace>>
    /\ UNCHANGED <<upd_dev, install_force, fb, bgrt, splash_file, bmp, image_bmp,
                   capsule_header, header, ostream, target, tmpfile, fw_calls,
                   fw_result, upd_result>>
    /\ UNCHANGED otherThanUpdate

\* lines 372-377: fu_plugin_uefi_capsule_get_splash_data for the selected size
Splash_GetData ==
    /\ pc = "get_data"
    /\ IF splash_file.state = "ok"
       THEN /\ image_bmp' = splash_file.data
            /\ pc' = "wsd"
            /\ UNCHANGED splash_error
       ELSE /\ splash_error' = CASE splash_file.state = "missing" -> "NotSupported"
                                 [] splash_file.state = "unreadable" -> "IoError"
                                 [] OTHER -> "DecompressError"
            /\ pc' = "splash_ret"
            /\ UNCHANGED image_bmp
    /\ UNCHANGED <<upd_dev, install_force, fb, bgrt, splash_file, bmp, best_idx,
                   capsule_header, header, ostream, target, tmpfile, efivar_ux,
                   trace, fw_calls, fw_result, upd_result>>
    /\ UNCHANGED otherThanUpdate

\* lines 234-254: sizes, the file name, g_file_replace
Wsd_Begin ==
    /\ pc = "wsd"
    /\ \/ /\ ~fb.ok
          /\ splash_error' = "FramebufferError"
          /\ pc' = "splash_ret"
          /\ UNCHANGED <<ostream, target, tmpfile, trace>>
       \/ /\ fb.ok /\ ~bmp.ok
          /\ splash_error' = "InvalidFile"
          /\ pc' = "splash_ret"
          /\ UNCHANGED <<ostream, target, tmpfile, trace>>
       \/ \* fu_common_mkdir_parent or g_file_replace fails
          /\ fb.ok /\ bmp.ok
          /\ splash_error' = "IoError"
          /\ pc' = "splash_ret"
          /\ UNCHANGED <<ostream, target, tmpfile, trace>>
       \/ \* g_file_replace: no file yet, the target is created and written in place
          /\ fb.ok /\ bmp.ok /\ ~target.exists
          /\ ostream' = "target"
          /\ target' = [exists |-> TRUE, data |-> <<>>]
          /\ trace' = Append(trace, "file_replace")
          /\ pc' = "wsd_hdr"
          /\ UNCHANGED <<tmpfile, splash_error>>
       \/ \* g_file_replace: the file exists, a temporary file takes the writes
          /\ fb.ok /\ bmp.ok /\ target.exists
          /\ ostream' = "temp"
          /\ tmpfile' = [exists |-> TRUE, data |-> <<>>]
          /\ trace' = Append(trace, "file_replace")
          /\ pc' = "wsd_hdr"
          /\ UNCHANGED <<target, splash_error>>
       \/ \* g_file_replace: no temporary file can be made, the file is truncated
          /\ fb.ok /\ bmp.ok /\ target.exists
          /\ ostream' = "target"
          /\ target' = [exists |-> TRUE, data |-> <<>>]
          /\ trace' = Append(trace, "file_replace")
          /\ pc' = "wsd_hdr"
          /\ UNCHANGED <<tmpfile, splash_error>>
    /\ UNCHANGED <<upd_dev, install_force, fb, bgrt, splash_file, bmp, best_idx,
                   image_bmp, capsule_header, header, efivar_ux, fw_calls,
                   fw_result, upd_result>>
    /\ UNCHANGED otherThanUpdate

\* lines 256-286: the two headers are filled in, the capsule header is written
Wsd_WriteHeader ==
    /\ pc = "wsd_hdr"
    /\ capsule_header' = BuiltCapsuleHeader(image_bmp)
    /\ header' = BuiltUxHeader(capsule_header', image_bmp, fb.width, bmp.width, bgrt)
    /\ \/ /\ WsdWrite(SubSeq(CapsuleHeaderBytes(capsule_header'), 1,
                             capsule_header'.header_size[2]))
          /\ pc' = "wsd_ux"
          /\ UNCHANGED <<ostream, splash_error>>
       \/ WsdReturn("IoError")
    /\ UNCHANGED <<upd_dev, install_force, fb, bgrt, splash_file, bmp, best_idx,
                   image_bmp, efivar_ux, trace, fw_calls, fw_result, upd_result>>
    /\ UNCHANGED otherThanUpdate

\* lines 287-289: the UX capsule header is written
Wsd_WriteUx ==
    /\ pc = "wsd_ux"
    /\ \/ /\ WsdWrite(UxHeaderBytes(header))
          /\ pc' = "wsd_payload"
          /\ UNCHANGED <<ostream, splash_error>>
       \/ WsdReturn("IoError")
    /\ UNCHANGED <<upd_dev, install_force, fb, bgrt, splash_file, bmp, best_idx,
                   image_bmp, capsule_header, header, efivar_ux, trace, fw_calls,
                   fw_result, upd_result>>
    /\ UNCHANGED otherThanUpdate

\* lines 290-292: the payload is written
Wsd_WritePayload ==
    /\ pc = "wsd_payload"
    /\ \/ /\ WsdWrite(image_bmp)
          /\ pc' = "wsd_info"
          /\ UNCHANGED <<ostream, splash_error>>
       \/ WsdReturn("IoError")
    /\ UNCHANGED <<upd_dev, install_force, fb, bgrt, splash_file, bmp, best_idx,
                   image_bmp, capsule_header, header, efivar_ux, trace, fw_calls,
                   fw_result, upd_result>>
    /\ UNCHANGED otherThanUpdate

\* lines 294-299: the UX update-info variable is written, the function returns
Wsd_UpdateInfo ==
    /\ pc = "wsd_info"
    /\ \/ /\ efivar_ux' = TRUE
          /\ trace' = Append(trace, "ux_update_info")
          /\ WsdReturn("none")
       \/ /\ UNCHANGED <<efivar_ux, trace>>
          /\ WsdReturn("EfivarError")
    /\ UNCHANGED <<upd_dev, install_force, fb, bgrt, splash_file, bmp, best_idx,
                   image_bmp, capsule_header, header, fw_calls, fw_result,
                   upd_result>>
    /\ UNCHANGED otherThanUpdate

\* lines 417-422: the splash result is looked at, the firmware is written
Update_WriteFirmware ==
    /\ pc = "splash_ret"
    /\ IF SplashFailureIsFatal(splash_error)
       THEN /\ upd_result' = splash_error
            /\ UNCHANGED <<fw_calls, fw_result, trace>>
       ELSE \E r \in {"ok", "WriteError"} :
                /\ fw_calls' = fw_calls + 1
                /\ fw_result' = r
                /\ upd_result' = r
                /\ trace' = Append(trace, "write_firmware")
    /\ pc' = "done"
    /\ UNCHANGED <<upd_dev, install_force, fb, bgrt, splash_file, bmp, best_idx,
                   image_bmp, capsule_header, header, ostream, target, tmpfile,
                   efivar_ux, splash_error>>
    /\ UNCHANGED otherThanUpdate

-----------------------------------------------------------------------------
(* fu_plugin_unlock *)

Devices == {"A", "B"}

otherThanUnlock == <<updateVars, resultsVars, coldplugVars>>

\* an ownership test that also refuses when only the alternate has no flashes
UnlockErrorEither(k, alt, fl, fl_alt) ==
    IF k # "DELL_TPM_FIRMWARE" THEN "unable"
    ELSE IF alt = "NULL" THEN "no_alternate"
    ELSE IF fl = 0 \/ fl_alt = 0
         THEN (IF fl = 0 /\ fl_alt = 0 THEN "no_flashes_left" ELSE "owned")
    ELSE "none"

\* lines 707-752: which error, if any, fu_plugin_unlock returns
UnlockError(k, alt, fl, fl_alt) ==
    IF k # "DELL_TPM_FIRMWARE" THEN "unable"
    ELSE IF alt = "NULL" THEN "no_alternate"
    ELSE IF fl = 0
         THEN (IF fl_alt = 0 THEN "no_flashes_left" ELSE "owned")
    ELSE "none"

\* flags left on the device when the alternate's flags are not cloned
UnlockedFlagsKept(flags_dev, flags_alt) == flags_dev \cup {"UPDATABLE"}

\* lines 755-756: the device gets the flags of the alternate
UnlockedFlags(flags_dev, flags_alt) == flags_alt

\* an alternate that keeps all its flags
AlternateFlagsKept(flags_alt) == flags_alt

\* line 757: the alternate loses FWUPD_DEVICE_FLAG_UPDATABLE
AlternateFlags(flags_alt) == flags_alt \ {"UPDATABLE"}

\* an unlock that tests the ownership only after it has changed the devices
UnlockProceedsOwned(err) == err \in {"none", "owned"}

\* lines 707-752: every error returns FALSE before anything is changed
UnlockProceeds(err) == err = "none"

\* fu_plugin_unlock (plugin, device, error)
Unlock(d) ==
    LET alt == alternate[d]
        fl == flashes_left[d]
        fl_alt == IF alt = "NULL" THEN 0 ELSE flashes_left[alt]
        err == UnlockError(kind[d], alt, fl, fl_alt)
    IN  /\ last_unlock' = [device |-> d, alt |-> alt, ok |-> err = "none",
                           error |-> IF err = "none" THEN "none" ELSE "NotSupported",
                           msg |-> err,
                           ok_alt |-> IF err = "none" THEN alt
                                      ELSE last_unlock.ok_alt,
                           pre_flags |-> flags,
                           pre_version |-> version,
                           pre_version_format |-> version_format]
        /\ IF ~UnlockProceeds(err)
           THEN UNCHANGED <<flags, version, version_format>>
           ELSE /\ flags' = [[flags EXCEPT ![d] = UnlockedFlags(flags[d], flags[alt])]
                                    EXCEPT ![alt] = AlternateFlags(flags[alt])]
                /\ version_format' = [version_format EXCEPT ![d] = "QUAD"]
                /\ version' = [version EXCEPT ![d] = "0.0.0.0"]
        /\ UNCHANGED <<kind, alternate, flashes_left>>
        /\ UNCHANGED otherThanUnlock

Unlock_Call == \E d \in Devices : Unlock(d)

-----------------------------------------------------------------------------
(* fu_plugin_get_results *)

FU_UEFI_DEVICE_STATUS_SUCCESS == 0

FU_UEFI_DEVICE_STATUS_ERROR_PWR_EVT_AC == 6

FU_UEFI_DEVICE_STATUS_ERROR_PWR_EVT_BATT == 7

\* fu_uefi_device_status_to_string: NULL for a status without a name
fu_uefi_device_status_to_string(st) ==
    CASE st = 0 -> "success"
      [] st = 1 -> "unsuccessful"
      [] st = 2 -> "insufficient resources"
      [] st = 3 -> "incorrect version"
      [] st = 4 -> "invalid firmware format"
      [] st = 5 -> "authentication signing error"
      [] st = 6 -> "AC power required"
      [] st = 7 -> "battery level is too low"
      [] OTHER -> "NULL"

otherThanResults == <<updateVars, unlockVars, coldplugVars>>

\* a decoder that knows the AC power event only
ResultsUpdateStateAcOnly(st) ==
    IF st = FU_UEFI_DEVICE_STATUS_SUCCESS THEN "SUCCESS"
    ELSE IF st = FU_UEFI_DEVICE_STATUS_ERROR_PWR_EVT_AC THEN "FAILED_TRANSIENT"
    ELSE "FAILED"

\* lines 74-85: the update state chosen for a raw status
ResultsUpdateState(st) ==
    IF st = FU_UEFI_DEVICE_STATUS_SUCCESS THEN "SUCCESS"
    ELSE IF st = FU_UEFI_DEVICE_STATUS_ERROR_PWR_EVT_AC \/
            st = FU_UEFI_DEVICE_STATUS_ERROR_PWR_EVT_BATT
         THEN "FAILED_TRANSIENT"
    ELSE "FAILED"

\* lines 86-94: "failed to update to <version>" with ": <status>" when it has a name
ResultsErrorMessage(st, ver) ==
    LET tmp == fu_uefi_device_status_to_string(st) IN
    IF tmp = "NULL"
    THEN <<"failed to update to ", ver>>
    ELSE <<"failed to update to ", ver, ": ", tmp>>

\* fu_plugin_get_results (plugin, device, error)
GetResults ==
    /\ update_state' = ResultsUpdateState(status)
    /\ update_error' = IF status = FU_UEFI_DEVICE_STATUS_SUCCESS
                       THEN update_error
                       ELSE ResultsErrorMessage(status, version_error)
    /\ results_ret' = "TRUE"
    /\ UNCHANGED <<status, version_error>>
    /\ UNCHANGED otherThanResults

-----------------------------------------------------------------------------
(* fu_plugin_coldplug *)

EntryOutcomes == {"ok", "parse_fail", "probe_fail", "setup_fail"}

EntryLists == UNION {[1..n -> EntryOutcomes] : n \in 0..MaxEntries}

otherThanColdplug == <<updateVars, unlockVars, resultsVars>>

\* lines 519-522: probe and setup of one device
ColdplugDeviceOk(e) == e # "probe_fail" /\ e # "setup_fail"

\* lines 803-822: the loop over the entries; i counts from 0 as in the code.
\* Yields the devices added and whether the loop ran to its end.
RECURSIVE ColdplugLoop(_, _, _, _)
ColdplugLoop(entries, i, esp_now, added) ==
    IF i >= Len(entries) THEN [added |-> added, ok |-> TRUE]
    ELSE IF entries[i + 1] = "parse_fail"
         THEN ColdplugLoop(entries, i + 1, esp_now, added)
    ELSE IF ~ColdplugDeviceOk(entries[i + 1])
         THEN [added |-> added, ok |-> FALSE]
    ELSE ColdplugLoop(entries, i + 1, esp_now,
                      Append(added, [entry |-> i,
                                     esp |-> esp_now,
                                     flags |-> {"UPDATABLE", "USABLE_DURING_UPDATE"}]))

\* fu_plugin_coldplug (plugin, error). Lines 824-830 (the secure boot report and
\* the BGRT setup) leave the state below as it is.
Coldplug ==
    /\ startup_ret = "TRUE"
    /\ coldplug_ret = "none"
    /\ IF ~esrt.listable
       THEN /\ coldplug_ret' = "NotFound"
            /\ UNCHANGED <<esp, esp_lookups, plugin_flags, devices_added>>
       ELSE LET lookup == esp = "NULL"
                esp_now == IF lookup /\ esp_env THEN "default" ELSE esp
                flags_rw == IF efivarfs_rw THEN {}
                            ELSE {"EFIVAR_NOT_MOUNTED", "CLEAR_UPDATABLE",
                                  "USER_WARNING"}
                flags_esp == IF esp_now # "NULL" THEN {}
                             ELSE {"ESP_NOT_FOUND", "CLEAR_UPDATABLE",
                                   "USER_WARNING"}
                loop == ColdplugLoop(esrt.entries, 0, esp_now, devices_added)
            IN  /\ esp' = esp_now
                /\ esp_lookups' = IF lookup THEN esp_lookups + 1 ELSE esp_lookups
                /\ plugin_flags' = plugin_flags \cup flags_rw \cup flags_esp
                /\ devices_added' = loop.added
                /\ coldplug_ret' = IF loop.ok THEN "TRUE" ELSE "DeviceError"
    /\ UNCHANGED <<esrt, esp_env, efivarfs_rw, esp_override, startup_ret>>
    /\ UNCHANGED otherThanColdplug

\* how fu_plugin_startup leaves before it reads OverrideESPMountPoint, if it does
StartupPaths ==
    {"test_env", "force_enable", "smbios_bad_efi_dir", "smbios_bad",
     "efivar_unsupported", "nvram_error", "normal"}

\* fu_plugin_startup (plugin, error)
Startup ==
    /\ startup_ret = "none"
    /\ \E path \in StartupPaths :
          IF path \in {"test_env", "force_enable", "smbios_bad_efi_dir"}
          THEN startup_ret' = "TRUE" /\ esp' = esp
          ELSE IF path \in {"smbios_bad", "efivar_unsupported", "nvram_error"}
          THEN startup_ret' = "FALSE" /\ esp' = esp
          ELSE IF esp_override = "none"
          THEN startup_ret' = "TRUE" /\ esp' = esp
          ELSE IF esp_override = "valid"
          THEN startup_ret' = "TRUE" /\ esp' = "override"
          ELSE startup_ret' = "FALSE" /\ esp' = esp
    /\ UNCHANGED <<esrt, esp_env, efivarfs_rw, esp_lookups, plugin_flags,
                   devices_added, coldplug_ret, esp_override>>
    /\ UNCHANGED otherThanColdplug

\* a lookup that is made whether or not an ESP is cached
EspAlwaysLookup(esp_now) == TRUE

\* line 461: if (data->esp == NULL) data->esp = fu_common_get_esp_default (...)
EspNeedsLookup(esp_now) == esp_now = "NULL"

\* proxy devices among the devices added
Proxies == {k \in 1..Len(devices_added) : devices_added[k].entry = -1}

\* fu_plugin_device_registered (plugin, device), with
\* fu_plugin_uefi_capsule_register_proxy_device
RegisterProxy ==
    /\ startup_ret = "TRUE"
    /\ Cardinality(Proxies) < MaxProxies
    /\ \E has_kind \in BOOLEAN, has_guid \in BOOLEAN,
          dev_flags \in {{}, {"UPDATABLE"}} :
          IF ~has_kind \/ ~has_guid
          THEN UNCHANGED <<esp, esp_lookups, devices_added>>
          ELSE LET lookup == EspNeedsLookup(esp)
                   esp_now == IF lookup
                              THEN (IF esp_env THEN "default" ELSE "NULL")
                              ELSE esp
               IN  /\ esp' = esp_now
                   /\ esp_lookups' = IF lookup THEN esp_lookups + 1
                                      ELSE esp_lookups
                   /\ devices_added' =
                         Append(devices_added,
                                [entry |-> -1,
                                 esp |-> esp_now,
                                 flags |-> IF esp_now = "NULL"
                                           THEN dev_flags \ {"UPDATABLE"}
                                           ELSE dev_flags,
                                 update_error |-> esp_now = "NULL"])
    /\ UNCHANGED <<esrt, esp_env, efivarfs_rw, plugin_flags, coldplug_ret,
                   esp_override, startup_ret>>
    /\ UNCHANGED otherThanColdplug

-----------------------------------------------------------------------------
(* Starting states *)

\* a capsule as the three writes lay it out
CapsuleBytes(blob, screen_x, width, b) ==
    LET ch == BuiltCapsuleHeader(blob)
    IN  CapsuleHeaderBytes(ch) \o
        UxHeaderBytes(BuiltUxHeader(ch, blob, screen_x, width, b)) \o blob

\* the capsule file an earlier update left on the ESP
OldCapsule ==
    [exists |-> TRUE,
     data |-> CapsuleBytes(<<1>>, N32(1024), N32(1024),
                           [supported |-> TRUE, yoffset |-> N32(10),
                            height |-> N32(20)])]

\* screen widths and heights the selection is run on
ScreenValues ==
    {N32(0), N32(479), N32(480), N32(600), N32(639), N32(640), N32(700),
     N32(768), N32(800), N32(1000), N32(1024), N32(1080), N32(1920),
     N32(4320), N32(7680), <<1, 0>>, <<1, 15>>, G_MAXUINT}

\* no update call is in progress
UpdateOff ==
    /\ pc = "off"
    /\ upd_dev = [flashes_left |-> 0, no_ux_capsule |-> FALSE, status |-> "IDLE"]
    /\ install_force = FALSE
    /\ fb = [ok |-> TRUE, width |-> N32(1024), height |-> N32(768)]
    /\ bgrt = [supported |-> FALSE, yoffset |-> N32(0), height |-> N32(0)]
    /\ splash_file = [state |-> "missing", data |-> <<>>]
    /\ bmp = [ok |-> FALSE, width |-> N32(0), height |-> N32(0)]
    /\ best_idx = G_MAXUINT
    /\ image_bmp = <<>>
    /\ capsule_header = InitCapsuleHeader
    /\ header = InitUxHeader
    /\ ostream = "none"
    /\ target = NoFile
    /\ tmpfile = NoFile
    /\ efivar_ux = FALSE
    /\ trace = <<>>
    /\ splash_error = "none"
    /\ fw_calls = 0
    /\ fw_result = "none"
    /\ upd_result = "none"

NoUnlock ==
    [device |-> "none", alt |-> "NULL", ok |-> FALSE, error |-> "none",
     msg |-> "none", ok_alt |-> "NULL", pre_flags |-> [d \in Devices |-> {}],
     pre_version |-> [d \in Devices |-> "1.2.3"],
     pre_version_format |-> [d \in Devices |-> "TRIPLET"]]

UnlockOff ==
    /\ kind = [d \in Devices |-> "SYSTEM_FIRMWARE"]
    /\ alternate = [d \in Devices |-> "NULL"]
    /\ flashes_left = [d \in Devices |-> 0]
    /\ flags = [d \in Devices |-> {}]
    /\ version = [d \in Devices |-> "1.2.3"]
    /\ version_format = [d \in Devices |-> "TRIPLET"]
    /\ last_unlock = NoUnlock

ResultsOff ==
    /\ status = 0
    /\ version_error = 0
    /\ update_state = "UNKNOWN"
    /\ update_error = <<>>
    /\ results_ret = "none"

ColdplugOff ==
    /\ esrt = [listable |-> FALSE, entries |-> <<>>]
    /\ esp_env = FALSE
    /\ efivarfs_rw = TRUE
    /\ esp = "NULL"
    /\ esp_lookups = 0
    /\ plugin_flags = {}
    /\ devices_added = <<>>
    /\ coldplug_ret = "off"
    /\ esp_override = "none"
    /\ startup_ret = "off"

\* an update call is about to start
InitUpdate ==
    /\ pc = "idle"
    /\ upd_dev \in [flashes_left : 0..MaxFlashes, no_ux_capsule : BOOLEAN,
                    status : {"IDLE"}]
    /\ install_force \in BOOLEAN
    /\ fb \in {[ok |-> FALSE, width |-> N32(0), height |-> N32(0)],
               [ok |-> TRUE, width |-> N32(1024), height |-> N32(768)],
               [ok |-> TRUE, width |-> N32(320), height |-> N32(200)]}
    /\ bgrt \in {[supported |-> FALSE, yoffset |-> N32(0), height |-> N32(0)],
                 [supported |-> TRUE, yoffset |-> N32(100), height |-> N32(200)]}
    /\ splash_file \in {[state |-> "missing", data |-> <<>>],
                        [state |-> "unreadable", data |-> <<>>],
                        [state |-> "corrupt", data |-> <<>>],
                        [state |-> "ok", data |-> <<1, 255>>]}
    /\ bmp \in {[ok |-> FALSE, width |-> N32(0), height |-> N32(0)],
                [ok |-> TRUE, width |-> N32(1024), height |-> N32(768)]}
    /\ best_idx = G_MAXUINT
    /\ image_bmp = <<>>
    /\ capsule_header = InitCapsuleHeader
    /\ header = InitUxHeader
    /\ ostream = "none"
    /\ target \in {NoFile, OldCapsule}
    /\ tmpfile = NoFile
    /\ efivar_ux \in BOOLEAN
    /\ trace = <<>>
    /\ splash_error = "none"
    /\ fw_calls = 0
    /\ fw_result = "none"
    /\ upd_result = "none"
    /\ UnlockOff /\ ResultsOff /\ ColdplugOff

\* fu_plugin_uefi_capsule_write_splash_data is about to run on an image
InitCapsule ==
    /\ pc = "wsd"
    /\ upd_dev = [flashes_left |-> 0, no_ux_capsule |-> FALSE,
                  status |-> "SCHEDULING"]
    /\ install_force = FALSE
    /\ fb \in {[ok |-> FALSE, width |-> N32(0), height |-> N32(0)]} \cup
              [ok : {TRUE}, width : {N32(0), N32(641), N32(1024), G_MAXUINT},
               height : {N32(768)}]
    /\ bgrt \in [supported : {TRUE}, yoffset : {N32(0), N32(100), G_MAXUINT},
                 height : {N32(0), N32(300), G_MAXUINT}]
    /\ image_bmp \in Blobs
    /\ splash_file = [state |-> "ok", data |-> image_bmp]
    /\ bmp \in {[ok |-> FALSE, width |-> N32(0), height |-> N32(0)]} \cup
               [ok : {TRUE}, width : {N32(0), N32(640), N32(1921)},
                height : {N32(480)}]
    /\ best_idx = N32(2)
    /\ capsule_header = InitCapsuleHeader
    /\ header = InitUxHeader
    /\ ostream = "none"
    /\ target \in {NoFile, OldCapsule}
    /\ tmpfile = NoFile
    /\ efivar_ux = FALSE
    /\ trace = <<"status_scheduling">>
    /\ splash_error = "none"
    /\ fw_calls = 0
    /\ fw_result = "none"
    /\ upd_result = "none"
    /\ UnlockOff /\ ResultsOff /\ ColdplugOff

\* fu_plugin_uefi_capsule_update_splash is about to select an image
InitSelect ==
    /\ pc = "splash"
    /\ upd_dev = [flashes_left |-> 0, no_ux_capsule |-> FALSE,
                  status |-> "SCHEDULING"]
    /\ install_force = FALSE
    /\ fb \in [ok : {TRUE}, width : ScreenValues, height : ScreenValues]
    /\ bgrt = [supported |-> TRUE, yoffset |-> N32(100), height |-> N32(200)]
    /\ splash_file = [state |-> "ok", data |-> <<1, 255>>]
    /\ bmp = [ok |-> TRUE, width |-> N32(640), height |-> N32(480)]
    /\ best_idx = G_MAXUINT
    /\ image_bmp = <<>>
    /\ capsule_header = InitCapsuleHeader
    /\ header = InitUxHeader
    /\ ostream = "none"
    /\ target = NoFile
    /\ tmpfile = NoFile
    /\ efivar_ux = FALSE
    /\ trace = <<"status_scheduling">>
    /\ splash_error = "none"
    /\ fw_calls = 0
    /\ fw_result = "none"
    /\ upd_result = "none"
    /\ UnlockOff /\ ResultsOff /\ ColdplugOff

FlagSets == SUBSET {"UPDATABLE", "LOCKED"}

Other(d) == IF d = "A" THEN "B" ELSE "A"

\* two devices, before any unlock
InitUnlock ==
    /\ kind \in [Devices -> {"DELL_TPM_FIRMWARE", "SYSTEM_FIRMWARE"}]
    /\ alternate \in {a \in [Devices -> Devices \cup {"NULL"}] :
                         \A d \in Devices : a[d] \in {"NULL", Other(d)}}
    /\ flashes_left \in [Devices -> 0..MaxFlashes]
    /\ flags \in [Devices -> FlagSets]
    /\ version = [d \in Devices |-> "1.2.3"]
    /\ version_format = [d \in Devices |-> "TRIPLET"]
    /\ last_unlock = NoUnlock
    /\ UpdateOff /\ ResultsOff /\ ColdplugOff

\* a device after the reboot, before its results are read
InitResults ==
    /\ status \in 0..MaxStatus
    /\ version_error \in 0..MaxVersionError
    /\ update_state \in {"UNKNOWN", "PENDING"}
    /\ update_error = <<>>
    /\ results_ret = "none"
    /\ UpdateOff /\ UnlockOff /\ ColdplugOff

\* the plugin after startup, before coldplug
InitColdplug ==
    /\ esrt \in [listable : BOOLEAN, entries : EntryLists]
    /\ esp_env \in BOOLEAN
    /\ efivarfs_rw \in BOOLEAN
    /\ esp \in {"NULL", "override"}
    /\ esp_lookups = 0
    /\ plugin_flags = {}
    /\ devices_added = <<>>
    /\ coldplug_ret = "none"
    /\ esp_override = IF esp = "override" THEN "valid" ELSE "none"
    /\ startup_ret = "TRUE"
    /\ UpdateOff /\ UnlockOff /\ ResultsOff

\* the plugin after fu_plugin_init, before startup
InitEsp ==
    /\ esrt \in [listable : BOOLEAN, entries : EntryLists]
    /\ esp_env \in BOOLEAN
    /\ efivarfs_rw \in BOOLEAN
    /\ esp = "NULL"
    /\ esp_lookups = 0
    /\ plugin_flags = {}
    /\ devices_added = <<>>
    /\ coldplug_ret = "none"
    /\ esp_override \in {"none", "valid", "invalid"}
    /\ startup_ret = "none"
    /\ UpdateOff /\ UnlockOff /\ ResultsOff

-----------------------------------------------------------------------------
(* Specifications *)

NextUpdate ==
    \/ Update_Begin
    \/ Splash_Begin
    \/ Splash_GetData
    \/ Wsd_Begin
    \/ Wsd_WriteHeader
    \/ Wsd_WriteUx
    \/ Wsd_WritePayload
    \/ Wsd_UpdateInfo
    \/ Update_WriteFirmware

SpecUpdate == InitUpdate /\ [][NextUpdate]_vars

NextCapsule ==
    \/ Wsd_Begin
    \/ Wsd_WriteHeader
    \/ Wsd_WriteUx
    \/ Wsd_WritePayload
    \/ Wsd_UpdateInfo

SpecCapsule == InitCapsule /\ [][NextCapsule]_vars

NextSelect == Splash_Begin

SpecSelect == InitSelect /\ [][NextSelect]_vars

NextUnlock == Unlock_Call

SpecUnlock == InitUnlock /\ [][NextUnlock]_vars

NextResults == GetResults

SpecResults == InitResults /\ [][NextResults]_vars

NextColdplug == Coldplug

SpecColdplug == InitColdplug /\ [][NextColdplug]_vars

NextEsp ==
    \/ Startup
    \/ Coldplug
    \/ RegisterProxy

SpecEsp == InitEsp /\ [][NextEsp]_vars

-----------------------------------------------------------------------------
(* Properties *)

RECURSIVE ByteSum(_)
ByteSum(buf) == IF buf = <<>> THEN 0 ELSE buf[1] + ByteSum(Tail(buf))

\* write_splash_data has filled in both headers
CapsuleBuilt == pc \in {"wsd_ux", "wsd_payload", "wsd_info"} \/ header.version = N32(1)

\* what the output stream has taken so far
Written == IF ostream = "temp" THEN tmpfile.data ELSE target.data

\* C1: in every capsule built by write_splash_data the bytes of the capsule
\* header, of the UX header with its checksum field zeroed and of the payload,
\* plus the stored checksum, sum to 0 modulo 256; so do the bytes of the whole
\* capsule once the three writes are done.
C1_ChecksumZero ==
    /\ CapsuleBuilt =>
          (ByteSum(CapsuleHeaderBytes(capsule_header)) +
           ByteSum(UxHeaderBytes([header EXCEPT !.checksum = 0])) +
           ByteSum(image_bmp) + header.checksum) % 256 = 0
    /\ pc = "wsd_info" => ByteSum(Written) % 256 = 0

C1_Witness ==
    /\ pc = "wsd_info"
    /\ Len(image_bmp) = 2
    /\ header.checksum # 0
    /\ Gt32(bmp.width, fb.width)
    /\ bgrt.yoffset = G_MAXUINT

\* C2: in every capsule built by write_splash_data capsule_image_size equals
\* header_size plus the size of the UX header plus the payload length, and
\* header_size is the size of the capsule header that is written.
C2_ImageSize ==
    /\ CapsuleBuilt =>
          /\ capsule_header.capsule_image_size =
                Add32(capsule_header.header_size,
                      N32(Len(UxHeaderBytes(header)) + Len(image_bmp)))
          /\ capsule_header.header_size =
                N32(Len(CapsuleHeaderBytes(capsule_header)))
    /\ pc = "wsd_ux" => N32(Len(Written)) = capsule_header.header_size
    /\ pc = "wsd_info" => N32(Len(Written)) = capsule_header.capsule_image_size

C2_Witness ==
    /\ pc = "wsd_info"
    /\ Len(image_bmp) = 2
    /\ Len(Written) = 54
    /\ ostream = "temp"

\* the flash counter lets the update through
BudgetPasses ==
    \/ install_force
    \/ upd_dev.flashes_left = 0
    \/ upd_dev.flashes_left > 2

\* C3: an update that passes the flash-budget check calls
\* fu_device_write_firmware exactly once, whatever update_splash returned, and
\* returns what that call returned.
C3_SplashNeverBlocks ==
    /\ fw_calls <= 1
    /\ (pc = "done" /\ BudgetPasses) =>
          /\ fw_calls = 1
          /\ fw_result \in {"ok", "WriteError"}
          /\ upd_result = fw_result
    /\ (pc \notin {"done", "off"}) => fw_calls = 0

C3_Witness ==
    /\ pc = "done"
    /\ splash_error = "IoError"
    /\ trace = <<"status_scheduling", "file_replace", "write_firmware">>
    /\ fw_calls = 1
    /\ upd_result = "ok"

\* C4: fu_plugin_update refuses with NotSupported, before anything is written,
\* exactly when flashes_left is 1 or 2 and the force flag is not set; otherwise
\* it goes on to the firmware write.
C4_FlashBudget ==
    pc \notin {"idle", "off"} =>
        LET low == upd_dev.flashes_left \in {1, 2} /\ ~install_force IN
        /\ low => (pc = "done" /\ upd_result = "NotSupported" /\ fw_calls = 0)
        /\ ~low => upd_result # "NotSupported"
        /\ (~low /\ pc = "done") => fw_calls = 1

C4_Witness ==
    /\ pc = "done"
    /\ upd_dev.flashes_left = 2
    /\ install_force
    /\ fw_calls = 1

\* C5: unlock fails with NotSupported when the device is not of the Dell TPM
\* kind, has no alternate, has no flashes left like its alternate ("no flashes
\* left"), or has none while the alternate has some ("owned"); it succeeds in
\* every other case.
C5_UnlockErrors ==
    last_unlock.device # "none" =>
        LET d == last_unlock.device
            a == alternate[d]
            wrong_kind == kind[d] # "DELL_TPM_FIRMWARE"
            no_alt == a = "NULL"
            none_left == ~wrong_kind /\ ~no_alt /\ flashes_left[d] = 0 /\
                         flashes_left[a] = 0
            owned == ~wrong_kind /\ ~no_alt /\ flashes_left[d] = 0 /\
                     flashes_left[a] > 0
        IN  /\ last_unlock.ok <=> ~(wrong_kind \/ no_alt \/ none_left \/ owned)
            /\ ~last_unlock.ok <=> last_unlock.error = "NotSupported"
            /\ none_left => last_unlock.msg = "no_flashes_left"
            /\ owned => last_unlock.msg = "owned"

C5_Witness ==
    /\ last_unlock.device = "A"
    /\ ~last_unlock.ok
    /\ last_unlock.msg = "owned"
    /\ flashes_left["A"] = 0
    /\ flashes_left["B"] > 0

\* the last unlock was of a Dell TPM device with an alternate, both with flashes
UnlockedBothNonZero ==
    /\ last_unlock.device # "none"
    /\ kind[last_unlock.device] = "DELL_TPM_FIRMWARE"
    /\ last_unlock.alt # "NULL"
    /\ flashes_left[last_unlock.device] # 0
    /\ flashes_left[last_unlock.alt] # 0

\* C6 as claimed: unlocking A, with flashes left on A and on its alternate B,
\* succeeds and leaves A updatable, B not updatable and A at version "0.0.0.0"
\* in quad format, whatever flags the two held.
C6_Claimed ==
    UnlockedBothNonZero =>
        /\ last_unlock.ok
        /\ "UPDATABLE" \in flags[last_unlock.device]
        /\ "UPDATABLE" \notin flags[last_unlock.alt]
        /\ version[last_unlock.device] = "0.0.0.0"
        /\ version_format[last_unlock.device] = "QUAD"

\* C6 amended: unlocking A, with flashes left on A and on its alternate B,
\* succeeds and leaves B not updatable and A with exactly the flags B held
\* before the call, so that A is updatable exactly when B was; A ends at
\* version "0.0.0.0" in quad format.
C6_UnlockClonesAlternate ==
    UnlockedBothNonZero =>
        /\ last_unlock.ok
        /\ flags[last_unlock.device] = last_unlock.pre_flags[last_unlock.alt]
        /\ "UPDATABLE" \in flags[last_unlock.device] <=>
              "UPDATABLE" \in last_unlock.pre_flags[last_unlock.alt]
        /\ "UPDATABLE" \notin flags[last_unlock.alt]
        /\ flags[last_unlock.alt] =
              last_unlock.pre_flags[last_unlock.alt] \ {"UPDATABLE"}
        /\ version[last_unlock.device] = "0.0.0.0"
        /\ version_format[last_unlock.device] = "QUAD"

C6_Witness ==
    /\ UnlockedBothNonZero
    /\ last_unlock.ok
    /\ last_unlock.device = "A"
    /\ last_unlock.pre_flags["A"] = {"LOCKED"}
    /\ last_unlock.pre_flags["B"] = {"UPDATABLE"}
    /\ flags["A"] = {"UPDATABLE"}
    /\ flags["B"] = {}

\* C7: fu_plugin_get_results succeeds for every raw status and sets one update
\* state: Success for the success code, FailedTransient for the two power
\* event codes, Failed for any other value; an error message is set exactly
\* when the state is not Success.
C7_StatusDecoding ==
    results_ret # "none" =>
        /\ results_ret = "TRUE"
        /\ update_state =
              CASE status = FU_UEFI_DEVICE_STATUS_SUCCESS -> "SUCCESS"
                [] status \in {FU_UEFI_DEVICE_STATUS_ERROR_PWR_EVT_AC,
                               FU_UEFI_DEVICE_STATUS_ERROR_PWR_EVT_BATT} ->
                       "FAILED_TRANSIENT"
                [] OTHER -> "FAILED"
        /\ update_state \in {"SUCCESS", "FAILED", "FAILED_TRANSIENT"}
        /\ update_error # <<>> <=> update_state # "SUCCESS"

C7_Witness ==
    /\ results_ret = "TRUE"
    /\ status = MaxStatus
    /\ fu_uefi_device_status_to_string(status) = "NULL"
    /\ update_state = "FAILED"
    /\ update_error = <<"failed to update to ", version_error>>

\* catalog entries (counted from 1) that fit the screen in both dimensions
Fitting(screen_width, screen_height) ==
    {i \in 1..(Len(sizes) - 1) :
        ~Gt32(sizes[i].width, screen_width) /\ ~Gt32(sizes[i].height, screen_height)}

\* the area of a catalog entry; every one is below 2^31
Area(i) == sizes[i].width[2] * sizes[i].height[2]

\* C8 as claimed: for every 32-bit screen width and height the selection
\* yields the fitting catalog entry of largest area, and fails with
\* NotSupported exactly when no entry fits.
C8_Claimed ==
    pc \in {"get_data", "splash_ret"} =>
        LET fit == Fitting(fb.width, fb.height) IN
        IF fit = {}
        THEN pc = "splash_ret" /\ splash_error = "NotSupported"
        ELSE /\ pc = "get_data"
             /\ \E i \in fit :
                   /\ best_idx = N32(i - 1)
                   /\ \A j \in fit : Area(j) <= Area(i)

\* C9 as claimed: a failure of one ESRT entry (parse, probe or setup) is
\* skipped: coldplug succeeds and adds every other entry; only a failure to
\* list the ESRT directory makes coldplug fail.
C9_Claimed ==
    coldplug_ret \notin {"none", "off"} =>
        IF ~esrt.listable
        THEN coldplug_ret = "NotFound"
        ELSE /\ coldplug_ret = "TRUE"
             /\ {devices_added[k].entry + 1 : k \in 1..Len(devices_added)} =
                   {i \in 1..Len(esrt.entries) : esrt.entries[i] = "ok"}

\* a file that holds a capsule header, a UX header and all of the payload
IsCompleteCapsule(data) ==
    /\ Len(data) >= sizeof_efi_capsule_header_t + sizeof_efi_ux_capsule_header_t
    /\ SubSeq(data, 21, 24) = LE32(N32(sizeof_efi_capsule_header_t))
    /\ SubSeq(data, 25, 28) = LE32(N32(Len(data)))

\* C10 as claimed: whatever write_splash_data does, and wherever it fails, the
\* capsule path never shows anything but a complete capsule.
C10_Claimed ==
    target.exists => IsCompleteCapsule(target.data)

\* coldplug went past the listing of the ESRT directory
ColdplugLooked == coldplug_ret \in {"TRUE", "DeviceError"}

\* every device added while no ESP was cached is marked non-updatable: a
\* proxy device loses UPDATABLE, the devices of coldplug are covered by the
\* CLEAR_UPDATABLE flag of the plugin
NoEspDevicesMarked ==
    \A k \in 1..Len(devices_added) :
        devices_added[k].esp = "NULL" =>
            IF devices_added[k].entry = -1
            THEN /\ "UPDATABLE" \notin devices_added[k].flags
                 /\ devices_added[k].update_error
            ELSE {"ESP_NOT_FOUND", "CLEAR_UPDATABLE"} \subseteq plugin_flags

\* C11 as claimed: the ESP is discovered once per session; when discovery
\* fails the devices added without an ESP are marked non-updatable and
\* discovery is not attempted again on later calls.
C11_Claimed ==
    /\ NoEspDevicesMarked
    /\ esp_lookups <= 1

\* C11 amended: a discovered ESP is cached and never looked up again; a failed
\* discovery caches nothing, so every later coldplug or proxy registration
\* made while no ESP is cached attempts discovery again; the devices added
\* without an ESP are marked non-updatable.
C11_EspCachedOnSuccess ==
    /\ NoEspDevicesMarked
    /\ \A k \in 1..Len(devices_added) :
          devices_added[k].esp # "NULL" => devices_added[k].esp = esp
    /\ esp = "override" => esp_lookups = 0
    /\ esp = "default" => esp_lookups = 1
    /\ esp = "NULL" =>
          esp_lookups = (IF ColdplugLooked THEN 1 ELSE 0) + Cardinality(Proxies)

C11_Witness ==
    /\ esp = "NULL"
    /\ coldplug_ret = "TRUE"
    /\ esp_lookups = 3
    /\ Len(devices_added) = 4
    /\ devices_added[1].entry = 0
    /\ devices_added[4].entry = -1

\* no UX capsule file and no UX update-info record is written by the step
NoUxWritten ==
    /\ target' = target
    /\ tmpfile' = tmpfile
    /\ ostream' = ostream
    /\ efivar_ux' => efivar_ux
    /\ \A k \in 1..Len(trace') :
          trace'[k] \notin {"file_replace", "ux_update_info"}

\* C12: with the custom flag no-ux-capsule the splash path of an update is
\* the deletion of the fwupd-ux-capsule variable and nothing else, whether or
\* not BGRT is supported: the variable is gone when the path returns without
\* error (its only error is that of fu_efivar_delete itself), and no UX
\* capsule file and no UX update-info record is written; without the flag
\* and without BGRT support the splash path does not delete the variable,
\* writes no file and no record; the rest of the update touches none of them.
C12_NoUxCapsule ==
    [][/\ (pc = "splash" /\ upd_dev.no_ux_capsule) =>
            /\ pc' = "splash_ret"
            /\ splash_error' \in {"none", "EfivarError"}
            /\ splash_error' = "none" =>
                  (~efivar_ux' /\ trace' = Append(trace, "efivar_delete"))
            /\ NoUxWritten
       /\ (pc = "splash" /\ ~upd_dev.no_ux_capsule /\ ~bgrt.supported) =>
            /\ pc' = "splash_ret"
            /\ splash_error' = "NotSupported"
            /\ efivar_ux' = efivar_ux
            /\ trace' = trace
            /\ NoUxWritten
       /\ pc = "splash_ret" =>
            /\ efivar_ux' = efivar_ux
            /\ target' = target
            /\ tmpfile' = tmpfile
      ]_vars

C12_Witness ==
    /\ pc = "done"
    /\ upd_dev.no_ux_capsule
    /\ bgrt.supported
    /\ fb.ok
    /\ splash_file.state = "ok"
    /\ trace = <<"status_scheduling", "efivar_delete", "write_firmware">>
    /\ ~efivar_ux
    /\ target = OldCapsule

\* A and B are each other's alternate
AlternatePair == alternate["A"] = "B" /\ alternate["B"] = "A"

\* C13: on a pair of devices that are each other's alternate, once an unlock
\* has succeeded at most one of the two carries the updatable flag, and the
\* alternate of the most recent successful unlock does not carry it.
C13_OneUpdatable ==
    (AlternatePair /\ last_unlock.ok_alt # "NULL") =>
        /\ ~("UPDATABLE" \in flags["A"] /\ "UPDATABLE" \in flags["B"])
        /\ "UPDATABLE" \notin flags[last_unlock.ok_alt]

C13_Witness ==
    /\ AlternatePair
    /\ version["A"] = "0.0.0.0"
    /\ last_unlock.ok_alt = "B"
    /\ last_unlock.device = "B"
    /\ ~last_unlock.ok
    /\ "UPDATABLE" \in flags["A"]
    /\ "UPDATABLE" \notin flags["B"]

\* C14: when fu_plugin_unlock returns an error (wrong kind, no alternate, no
\* flashes left, alternate owned) the flags, the version and the version
\* format of the device and of its alternate are what they were before the
\* call.
C14_FailedUnlockChangesNothing ==
    (last_unlock.device # "none" /\ ~last_unlock.ok) =>
        /\ last_unlock.error = "NotSupported"
        /\ last_unlock.msg \in {"unable", "no_alternate", "no_flashes_left", "owned"}
        /\ \A d \in {last_unlock.device, last_unlock.alt} \ {"NULL"} :
              /\ flags[d] = last_unlock.pre_flags[d]
              /\ version[d] = last_unlock.pre_version[d]
              /\ version_format[d] = last_unlock.pre_version_format[d]

C14_Witness ==
    /\ last_unlock.device = "B"
    /\ last_unlock.alt = "A"
    /\ ~last_unlock.ok
    /\ last_unlock.msg = "owned"
    /\ last_unlock.pre_version["A"] = "0.0.0.0"
    /\ version = [d \in Devices |-> IF d = "A" THEN "0.0.0.0" ELSE "1.2.3"]
    /\ version_format["A"] = "QUAD"
    /\ flags["A"] = {"UPDATABLE", "LOCKED"}
    /\ flags["B"] = {"LOCKED"}

\* the steps of fu_plugin_uefi_capsule_update_splash
SplashStages ==
    {"splash", "get_data", "wsd", "wsd_hdr", "wsd_ux", "wsd_payload", "wsd_info"}

\* C15: an update refused by the flash-budget check leaves the device status
\* alone, deletes no UX variable, writes no UX capsule file and no UX
\* update-info and does not call fu_device_write_firmware; an update that is
\* not refused sets the status to scheduling before the splash attempt
\* starts, and fu_device_write_firmware is called only once the splash
\* attempt has returned.
C15_RefusedUpdateNoEffect ==
    [][/\ (pc = "idle" /\ ~BudgetPasses) =>
            /\ pc' = "done"
            /\ upd_result' = "NotSupported"
            /\ upd_dev' = upd_dev
            /\ upd_dev'.status = "IDLE"
            /\ efivar_ux' = efivar_ux
            /\ target' = target
            /\ tmpfile' = tmpfile
            /\ ostream' = ostream
            /\ trace' = <<>>
            /\ fw_calls' = 0
       /\ (pc = "idle" /\ BudgetPasses) =>
            /\ pc' = "splash"
            /\ upd_dev'.status = "SCHEDULING"
            /\ trace' = <<"status_scheduling">>
            /\ efivar_ux' = efivar_ux
            /\ target' = target
            /\ fw_calls' = 0
       /\ pc' \in SplashStages =>
            (fw_calls' = 0 /\ upd_dev'.status = "SCHEDULING")
       /\ fw_calls' # fw_calls =>
            /\ pc = "splash_ret"
            /\ pc' = "done"
            /\ upd_dev.status = "SCHEDULING"
            /\ trace' = Append(trace, "write_firmware")
      ]_vars

C15_Witness ==
    /\ pc = "done"
    /\ upd_dev.flashes_left = 1
    /\ ~install_force
    /\ ~upd_dev.no_ux_capsule
    /\ upd_dev.status = "IDLE"
    /\ upd_result = "NotSupported"
    /\ bgrt.supported /\ fb.ok /\ splash_file.state = "ok"
    /\ efivar_ux
    /\ target = OldCapsule
    /\ trace = <<>>
    /\ fw_calls = 0

=============================================================================
